---- MODULE Spec2Model ----
(***************************************************************************)
(* Model of bf-rs: the Brainfuck front-end optimizer (Interpreter::new and *)
(* build_jump_addr), the byte-code interpreter (Interpreter::run) and the  *)
(* x86-64 code emitted by Interpreter::compile.                            *)
(***************************************************************************)
EXTENDS Integers, Sequences, FiniteSets, TLC

(***************************************************************************)
(* Bounds of the model.                                                    *)
(***************************************************************************)
\* number of words the source iterator yields in the optimizer specification
MaxWords == 4

(***************************************************************************)
(* Token (interpreter.rs:8-20).  A token is a tuple whose first element is *)
(* the variant name; the other elements are the variant's fields in order. *)
(***************************************************************************)
Add(n, k) == <<"Add", n, k>>
Mul(n, k, b) == <<"Mul", n, k, b>>
AddTo(k, b) == <<"AddTo", k, b>>
Clear(k) == <<"Clear", k>>
Shift(n) == <<"Shift", n>>
LoopBegin(rel) == <<"LoopBegin", rel>>
LoopEnd(rel) == <<"LoopEnd", rel>>
Input(k) == <<"Input", k>>
Output(k) == <<"Output", k>>
End == <<"End">>

\* the variant of a token
Op(t) == t[1]

(***************************************************************************)
(* The source iterator.  The iterator yields one character per step; the   *)
(* bounded set of sources is every concatenation of at most MaxWords words *)
(* of Words: the eight commands, three loop bodies that make the           *)
(* multiply-add idiom reachable, and a whole clear loop.  When the program is also run the words   *)
(* are those of RunWords, which hold a non-command character too.          *)
(***************************************************************************)
Commands == {"+", "-", ">", "<", ",", ".", "[", "]"}

Chars == Commands \cup {"x"}

LoopBodies ==
    { <<"-", ">", "+", "<">>,
      <<"-", "<", "-", ">">>,
      <<"-", ">", "+", "+", ">", "+", "<", "<">> }

ClearLoop == <<"[", "-", "]">>

Words == { <<c>> : c \in Commands } \cup LoopBodies \cup {ClearLoop}

VARIABLES
    src,      \* the characters the iterator has yielded so far
    word,     \* the characters of the current word not yet yielded
    nw,       \* the number of words drawn
    inst,     \* new: the IR under construction
    depth,    \* new: open brackets
    shift,    \* new: pending head movement
    begin,    \* new: IR length right after the last LoopBegin, or 0
    mp,       \* new: pending deltas, offset -> delta (a HashMap)
    result,   \* "sweep" inside new's loop, then "Ok" or the error string
    prog,     \* the inst of the Interpreter that new returned, <<>> if none
    input,    \* the bytes the reader has supplied so far
    closed,   \* the reader has reported end of input after them
    run,      \* one call of run: its locals, reader position and I/O log
    jit,      \* one call of the closure compile returned: registers, tape, log
    bf        \* the source executed character by character (reference)

optVars == <<inst, depth, shift, begin, mp, result, prog>>

srcVars == <<src, word, nw>>

runVars == <<input, closed, run, jit, bf>>

vars == <<src, word, nw, inst, depth, shift, begin, mp, result, prog,
          input, closed, run, jit, bf>>

(***************************************************************************)
(* Helpers on sequences and maps.                                          *)
(***************************************************************************)
\* The deltas of Token::Add and Token::Mul, and the values of the pending
\* map, are i16 (interpreter.rs:10-11).  An i16 operation whose result does
\* not fit panics in a build with overflow checks and wraps in a build
\* without; `checks` below says which build executes the operation.
Fits16(x) == x >= -32768 /\ x <= 32767

Wrap16(x) == ((x + 32768) % 65536) - 32768

Front(s) == SubSeq(s, 1, Len(s) - 1)

Last(s) == s[Len(s)]

EmptyMap == [k \in {} |-> 0]

\* HashMap::remove
MapRemove(m, k) == [x \in DOMAIN m \ {k} |-> m[x]]

\* HashMap::insert / in-place update
MapPut(m, k, v) == [x \in DOMAIN m \cup {k} |-> IF x = k THEN v ELSE m[x]]

\* The orders in which iterating a HashMap with key set S may visit its
\* keys: the order is unspecified, every permutation is possible.
Orders(S) ==
    { o \in [1..Cardinality(S) -> S] :
        \A a, b \in 1..Cardinality(S) : a # b => o[a] # o[b] }

\* the keys of the order whose delta is not 0 (the `if *add != 0` and the
\* `0 => continue` of interpreter.rs:79, 101 and 111)
Live(m, ord) == SelectSeq(ord, LAMBDA k : m[k] # 0)

\* a flush that keeps the entries whose delta is 0
FlushAddsAll(m, ord) == [j \in 1..Len(ord) |-> Add(m[ord[j]], ord[j])]

\* interpreter.rs:78-82 and 110-114: one Add per pending entry whose delta
\* is not 0, in the map's iteration order
FlushAdds(m, ord) ==
    [j \in 1..Len(Live(m, ord)) |-> Add(m[Live(m, ord)[j]], Live(m, ord)[j])]

\* interpreter.rs:84-87 and 115-118: the pending shift, when not 0
FlushShift(s) == IF s # 0 THEN <<Shift(s)>> ELSE <<>>

\* interpreter.rs:92: the test that makes ']' an idiom
\* an idiom test that does not look at what the loop has pushed
IsIdiomAnyBody(len, bgn, sh, m) == sh = 0 /\ 0 \in DOMAIN m /\ m[0] = -1

IsIdiom(len, bgn, sh, m) ==
    len = bgn /\ sh = 0 /\ 0 \in DOMAIN m /\ m[0] = -1

\* a token with destination and source exchanged
IdiomTokenSwapped(add, offset, sh) ==
    IF add = 1 THEN AddTo(sh, offset + sh) ELSE Mul(add, sh, offset + sh)

\* interpreter.rs:100-104: the token pushed for one pending entry
IdiomToken(add, offset, sh) ==
    IF add = 1 THEN AddTo(offset + sh, sh) ELSE Mul(add, offset + sh, sh)

\* interpreter.rs:99-106: the tokens that replace the loop; m is the pending
\* map with offset 0 removed, sh the restored shift
IdiomCode(m, sh, ord) ==
    Append([j \in 1..Len(Live(m, ord)) |->
              IdiomToken(m[Live(m, ord)[j]], Live(m, ord)[j], sh)],
           Clear(sh))

(***************************************************************************)
(* build_jump_addr (interpreter.rs:135-156).  Walk auxiliary: i is the     *)
(* 1-based position in the input, opt the output so far, stack the stack   *)
(* of positions of the open LoopBegins.  A pop of the empty stack is the   *)
(* panic of unwrap().                                                      *)
(***************************************************************************)
Panicked == << <<"panic">> >>

\* an offset that lands on the partner instead of one past it
BeginRelOnPartner(sh) == sh

\* interpreter.rs:147 and 148: the offsets stored for a pair at distance sh
BeginRel(sh) == sh + 1

\* a backward offset that lands two tokens before the LoopBegin
EndRelBeforeBegin(sh) == -sh - 2

EndRel(sh) == 1 - sh

\* a walk that adds the new offset to the one already stored
RECURSIVE JumpWalkAccum(_, _, _, _)
JumpWalkAccum(in, i, opt, stack) ==
    IF i > Len(in) THEN opt
    ELSE IF Op(in[i]) = "LoopBegin"
         THEN JumpWalkAccum(in, i + 1, Append(opt, in[i]), Append(stack, i))
    ELSE IF Op(in[i]) = "LoopEnd"
         THEN IF stack = <<>> THEN Panicked
              ELSE LET pos == Last(stack)
                       sh == i - pos
                   IN  JumpWalkAccum(in, i + 1,
                           Append([opt EXCEPT ![pos] = LoopBegin(opt[pos][2] + sh + 1)],
                                  LoopEnd(in[i][2] + 1 - sh)),
                           Front(stack))
    ELSE JumpWalkAccum(in, i + 1, Append(opt, in[i]), stack)

RECURSIVE JumpWalk(_, _, _, _)
JumpWalk(in, i, opt, stack) ==
    IF i > Len(in) THEN opt
    ELSE IF Op(in[i]) = "LoopBegin"
         THEN JumpWalk(in, i + 1, Append(opt, LoopBegin(0)), Append(stack, i))
    ELSE IF Op(in[i]) = "LoopEnd"
         THEN IF stack = <<>> THEN Panicked
              ELSE LET pos == Last(stack)
                       sh == i - pos
                   IN  JumpWalk(in, i + 1,
                                Append([opt EXCEPT ![pos] = LoopBegin(BeginRel(sh))],
                                       LoopEnd(EndRel(sh))),
                                Front(stack))
    ELSE JumpWalk(in, i + 1, Append(opt, in[i]), stack)

build_jump_addr(in) == JumpWalk(in, 1, <<>>, <<>>)

(***************************************************************************)
(* Interpreter::new, one character of the for loop (interpreter.rs:34-125).*)
(***************************************************************************)
\* '+' and '-' pushed as they are read, nothing left pending
AddArmEager(n) ==
    /\ inst' = Append(inst, Add(n, shift))
    /\ UNCHANGED <<depth, shift, begin, mp, result, prog>>

\* '+' and '-': fold into mp[shift] (interpreter.rs:55-60)
AddArm(n) ==
    LET v == IF shift \in DOMAIN mp THEN mp[shift] + n ELSE n
    IN  \E checks \in BOOLEAN :
           IF checks /\ ~Fits16(v)
           THEN /\ result' = "panic"
                /\ UNCHANGED <<inst, depth, shift, begin, mp, prog>>
           ELSE /\ mp' = MapPut(mp, shift, Wrap16(v))
                /\ UNCHANGED <<inst, depth, shift, begin, result, prog>>

\* '>' and '<'
ShiftArm(n) ==
    \E checks \in BOOLEAN :
       IF checks /\ ~Fits16(shift + n)
       THEN /\ result' = "panic"
            /\ UNCHANGED <<inst, depth, shift, begin, mp, prog>>
       ELSE /\ shift' = Wrap16(shift + n)
            /\ UNCHANGED <<inst, depth, begin, mp, result, prog>>

\* a '.' that pushes its Output and leaves the pending entry unflushed
OutputCodeNoFlush(m, sh) == <<Output(sh)>>

\* the tokens '.' pushes
OutputCode(m, sh) ==
    IF sh \in DOMAIN m THEN <<Add(m[sh], sh), Output(sh)>> ELSE <<Output(sh)>>

OutputArm ==
    /\ inst' = inst \o OutputCode(mp, shift)
    /\ mp' = MapRemove(mp, shift)
    /\ UNCHANGED <<depth, shift, begin, result, prog>>

InputArm ==
    /\ mp' = MapRemove(mp, shift)
    /\ inst' = Append(inst, Input(shift))
    /\ UNCHANGED <<depth, shift, begin, result, prog>>

\* a flush that commits the head movement before the pending deltas
FlushCodeShiftFirst(m, sh, ord) == FlushShift(sh) \o FlushAdds(m, ord)

\* the tokens '[' and a non-idiom ']' push before their bracket token
FlushCode(m, sh, ord) == FlushAdds(m, ord) \o FlushShift(sh)

LoopBeginArm ==
    \E ord \in Orders(DOMAIN mp) :
       /\ depth' = depth + 1
       /\ inst' = Append(inst \o FlushCode(mp, shift, ord), LoopBegin(0))
       /\ mp' = EmptyMap
       /\ shift' = 0
       /\ begin' = Len(inst')
       /\ UNCHANGED <<result, prog>>

\* pops that forget the value of the Shift they remove
PoppedShiftDropped(in) == 0

\* the shift restored and the IR left after the idiom's pops (93-97)
PoppedShift(in) ==
    IF Front(in) # <<>> /\ Op(Last(Front(in))) = "Shift"
    THEN Last(Front(in))[2] ELSE 0

PoppedInst(in) ==
    IF Front(in) # <<>> /\ Op(Last(Front(in))) = "Shift"
    THEN Front(Front(in)) ELSE Front(in)

LoopEndArm ==
    IF depth - 1 < 0
    THEN /\ result' = "[ missing."
         /\ depth' = depth - 1
         /\ UNCHANGED <<inst, shift, begin, mp, prog>>
    ELSE IF IsIdiom(Len(inst), begin, shift, mp)
    THEN IF inst = <<>>
         THEN /\ result' = "panic"
              /\ depth' = depth - 1
              /\ UNCHANGED <<inst, shift, begin, mp, prog>>
         ELSE \E ord \in Orders(DOMAIN mp \ {0}) :
                 /\ depth' = depth - 1
                 /\ shift' = PoppedShift(inst)
                 /\ inst' = PoppedInst(inst)
                              \o IdiomCode(MapRemove(mp, 0), shift', ord)
                 /\ mp' = EmptyMap
                 /\ begin' = 0
                 /\ UNCHANGED <<result, prog>>
    ELSE \E ord \in Orders(DOMAIN mp) :
            /\ depth' = depth - 1
            /\ inst' = Append(inst \o FlushCode(mp, shift, ord), LoopEnd(0))
            /\ shift' = 0
            /\ mp' = EmptyMap
            /\ UNCHANGED <<begin, result, prog>>

\* a loop body that opens a pending entry on a character that is no command
FeedOtherPending(c) ==
    CASE c = "+" -> AddArm(1)
      [] c = "-" -> AddArm(-1)
      [] c = ">" -> ShiftArm(1)
      [] c = "<" -> ShiftArm(-1)
      [] c = "," -> InputArm
      [] c = "." -> OutputArm
      [] c = "[" -> LoopBeginArm
      [] c = "]" -> LoopEndArm
      [] OTHER -> AddArm(0)

\* the body of the for loop for the character c
Feed(c) ==
    CASE c = "+" -> AddArm(1)
      [] c = "-" -> AddArm(-1)
      [] c = ">" -> ShiftArm(1)
      [] c = "<" -> ShiftArm(-1)
      [] c = "," -> InputArm
      [] c = "." -> OutputArm
      [] c = "[" -> LoopBeginArm
      [] c = "]" -> LoopEndArm
      [] OTHER -> UNCHANGED optVars

\* the iterator yields its next character and the loop body runs on it
Scan(words, limit) ==
    /\ result = "sweep"
    /\ \E w \in (IF word = <<>> THEN (IF nw < limit THEN words ELSE {}) ELSE {word}) :
          /\ src' = Append(src, Head(w))
          /\ word' = Tail(w)
          /\ nw' = IF word = <<>> THEN nw + 1 ELSE nw
          /\ Feed(Head(w))
    /\ UNCHANGED runVars

\* a test that lets one open bracket through
ClosingMissingOffByOne(d) == d > 1

\* interpreter.rs:126
ClosingMissing(d) == d > 0

\* the iterator is exhausted: interpreter.rs:126-132
Finish ==
    /\ result = "sweep"
    /\ word = <<>>
    /\ IF ClosingMissing(depth)
       THEN /\ result' = "] missing."
            /\ prog' = prog
       ELSE LET built == build_jump_addr(Append(inst, End))
            IN  IF built = Panicked
                THEN result' = "panic" /\ prog' = prog
                ELSE result' = "Ok" /\ prog' = built
    /\ UNCHANGED <<src, word, nw, inst, depth, shift, begin, mp>>
    /\ UNCHANGED runVars

(***************************************************************************)
(* The tape.  A zero-initialised byte array is represented by its non-zero *)
(* cells: a function from the indices that hold a non-zero byte to that    *)
(* byte.  TapeLen is the array's length.                                   *)
(***************************************************************************)
\* interpreter.rs:162 and 301: [0u8; 0xffff]
TapeLen == 65535

ZeroTape == [a \in {} |-> 0]

\* the index is one of the array
InTape(a) == a >= 0 /\ a < TapeLen

Cell(buffer, a) == IF a \in DOMAIN buffer THEN buffer[a] ELSE 0

Store(buffer, a, v) ==
    IF v = 0 THEN [x \in DOMAIN buffer \ {a} |-> buffer[x]]
    ELSE [x \in DOMAIN buffer \cup {a} |-> IF x = a THEN v ELSE buffer[x]]

\* `as u8` of an integer
AsU8(x) == x % 256

(***************************************************************************)
(* The reader.  Every execution reads the same stream from its start; the  *)
(* stream's bytes are drawn when an execution first reads them.  A read at *)
(* the end of the stream returns Ok(0) and leaves the one-byte buffer 0.   *)
(***************************************************************************)
InputBytes == {1, 255}

MaxInput == 2

Eof == -1

\* the outcomes of reading one byte at stream position rd
ReadOutcomes(rd) ==
    IF rd < Len(input)
    THEN {[byte |-> input[rd + 1], rd |-> rd + 1, input |-> input, closed |-> closed]}
    ELSE {[byte |-> Eof, rd |-> rd, input |-> input, closed |-> TRUE]}
         \cup (IF closed \/ Len(input) >= MaxInput THEN {}
               ELSE {[byte |-> b, rd |-> rd + 1, input |-> Append(input, b),
                      closed |-> FALSE] : b \in InputBytes})

ReadEvent(byte) == <<"read", byte>>

WriteEvent(byte) == <<"write", byte>>

\* the bytes written, in order
IsWrite(e) == e[1] = "write"

Written(io) == SelectSeq(io, IsWrite)

(***************************************************************************)
(* Interpreter::run (interpreter.rs:159-201), one iteration of its loop.   *)
(* r is the record of the locals: i, pos, buffer; rd and io are the reader *)
(* position and the log of reads and writes; n counts the iterations.      *)
(***************************************************************************)
\* the iterations of a run, and the blocks of an invocation, that are followed
MaxSteps == 12

\* the characters of the reference execution that are followed
MaxSrcSteps == 24

Idle == [st |-> "idle", i |-> 0, pos |-> 0, buffer |-> ZeroTape, rd |-> 0,
         io |-> <<>>, n |-> 0]

Panic(r) == [r EXCEPT !.st = "panic"]

\* (pos + shift) as usize: pos and shift are i16 and so is their sum.  A sum
\* outside i16 panics in a build with overflow checks and wraps otherwise;
\* -1 stands for the panic, as no index of the array
Index(r, k, checks) ==
    IF checks /\ ~Fits16(r.pos + k) THEN -1 ELSE Wrap16(r.pos + k)

\* interpreter.rs:165-168: (n + rhs) as u8, the sum an i16
RunAdd(r, n, k, checks) ==
    LET a == Index(r, k, checks)
    IN  IF ~InTape(a) THEN Panic(r)
        ELSE LET sum == n + Cell(r.buffer, a)
             IN  IF checks /\ ~Fits16(sum) THEN Panic(r)
                 ELSE [r EXCEPT !.buffer = Store(@, a, AsU8(Wrap16(sum))),
                                !.i = @ + 1]

\* interpreter.rs:169-173: (n * mul + rhs) as u8, product and sum an i16
RunMul(r, n, k, b, checks) ==
    LET a == Index(r, k, checks)
        from == Index(r, b, checks)
    IN  IF ~InTape(a) \/ ~InTape(from) THEN Panic(r)
        ELSE LET product == n * Cell(r.buffer, from)
                 sum == Wrap16(product) + Cell(r.buffer, a)
             IN  IF checks /\ (~Fits16(product) \/ ~Fits16(sum)) THEN Panic(r)
                 ELSE [r EXCEPT !.buffer = Store(@, a, AsU8(Wrap16(sum))),
                                !.i = @ + 1]

\* interpreter.rs:174-178: the sum of two bytes always fits an i16
RunAddTo(r, to, from, checks) ==
    LET a == Index(r, to, checks)
        b == Index(r, from, checks)
    IN  IF ~InTape(a) \/ ~InTape(b) THEN Panic(r)
        ELSE [r EXCEPT !.buffer = Store(@, a,
                                        AsU8(Cell(r.buffer, b) + Cell(r.buffer, a))),
                       !.i = @ + 1]

\* interpreter.rs:179
RunClear(r, k, checks) ==
    LET a == Index(r, k, checks)
    IN  IF ~InTape(a) THEN Panic(r)
        ELSE [r EXCEPT !.buffer = Store(@, a, 0), !.i = @ + 1]

\* interpreter.rs:180: pos += shift, an i16
RunShift(r, n, checks) ==
    IF checks /\ ~Fits16(r.pos + n) THEN Panic(r)
    ELSE [r EXCEPT !.pos = Wrap16(@ + n), !.i = @ + 1]

\* interpreter.rs:181-184
RunLoopBegin(r, label) ==
    IF ~InTape(r.pos) THEN Panic(r)
    ELSE IF Cell(r.buffer, r.pos) = 0 THEN [r EXCEPT !.i = @ + label]
    ELSE [r EXCEPT !.i = @ + 1]

\* interpreter.rs:185-188
RunLoopEnd(r, label) ==
    IF ~InTape(r.pos) THEN Panic(r)
    ELSE IF Cell(r.buffer, r.pos) # 0 THEN [r EXCEPT !.i = @ + label]
    ELSE [r EXCEPT !.i = @ + 1]

\* a reader at its end leaves the marker in the buffer
StoredEofMarker(byte) == IF byte = Eof THEN 255 ELSE byte

\* the byte left in buf after the read (interpreter.rs:190-191, 321-323)
Stored(byte) == IF byte = Eof THEN 0 ELSE byte

\* interpreter.rs:189-193, o the outcome of the read
RunInput(r, k, o, checks) ==
    LET read == [r EXCEPT !.rd = o.rd, !.io = Append(@, ReadEvent(o.byte))]
        a == Index(r, k, checks)
    IN  IF ~InTape(a) THEN Panic(read)
        ELSE [read EXCEPT !.buffer = Store(@, a, Stored(o.byte)),
                          !.i = @ + 1]

\* interpreter.rs:194-196
RunOutput(r, k, checks) ==
    LET a == Index(r, k, checks)
    IN  IF ~InTape(a) THEN Panic(r)
        ELSE [r EXCEPT !.io = Append(@, WriteEvent(Cell(r.buffer, a))),
                       !.i = @ + 1]

\* the match of interpreter.rs:164 on a token other than Input
RunToken(r, t, checks) ==
    CASE Op(t) = "Add" -> RunAdd(r, t[2], t[3], checks)
      [] Op(t) = "Mul" -> RunMul(r, t[2], t[3], t[4], checks)
      [] Op(t) = "AddTo" -> RunAddTo(r, t[2], t[3], checks)
      [] Op(t) = "Clear" -> RunClear(r, t[2], checks)
      [] Op(t) = "Shift" -> RunShift(r, t[2], checks)
      [] Op(t) = "LoopBegin" -> RunLoopBegin(r, t[2])
      [] Op(t) = "LoopEnd" -> RunLoopEnd(r, t[2])
      [] Op(t) = "Output" -> RunOutput(r, t[2], checks)
      [] Op(t) = "End" -> [r EXCEPT !.st = "done"]

\* run is called on the returned Interpreter (interpreter.rs:160-162)
RunBegin ==
    /\ result = "Ok"
    /\ run.st = "idle"
    /\ run' = [Idle EXCEPT !.st = "running"]
    /\ UNCHANGED <<srcVars, optVars, input, closed, jit, bf>>

RunStep ==
    /\ run.st = "running"
    /\ run.n < MaxSteps
    /\ IF run.i < 0 \/ run.i >= Len(prog)
       THEN run' = Panic(run) /\ UNCHANGED <<input, closed>>
       ELSE LET t == prog[run.i + 1]
                r == [run EXCEPT !.n = @ + 1]
            IN  IF Op(t) = "Input"
                THEN \E o \in ReadOutcomes(run.rd), checks \in BOOLEAN :
                        /\ run' = RunInput(r, t[2], o, checks)
                        /\ input' = o.input
                        /\ closed' = o.closed
                ELSE /\ \E checks \in BOOLEAN : run' = RunToken(r, t, checks)
                     /\ UNCHANGED <<input, closed>>
    /\ UNCHANGED <<srcVars, optVars, jit, bf>>

\* the call of run has returned, panicked, or is followed no further
RunOver == run.st \in {"done", "panic"} \/ (run.st = "running" /\ run.n >= MaxSteps)

(***************************************************************************)
(* Interpreter::compile (interpreter.rs:204-311).  The emitted code is one *)
(* block of instructions per token; a block is modelled by its token,      *)
(* except the two loop blocks, which are their conditional jump with the   *)
(* 0-based index of the block its label stands before.  rcx holds the tape *)
(* base and rdx the head offset; the record of an invocation holds rdx in  *)
(* pos and the index of the block to execute in i.  An access the emitted  *)
(* code makes outside the tape is undefined behaviour: the invocation ends *)
(* in st = "ub", a state in which nothing is known about the outcome.      *)
(***************************************************************************)
\* interpreter.rs:247-264: the label stack resolves the jumps
RECURSIVE LabelWalk(_, _, _, _)
LabelWalk(in, i, code, labels) ==
    IF i > Len(in) THEN code
    ELSE IF Op(in[i]) = "LoopBegin"
         THEN LabelWalk(in, i + 1, Append(code, <<"jz", -1>>), Append(labels, i))
    ELSE IF Op(in[i]) = "LoopEnd"
         THEN IF labels = <<>> THEN Panicked
              ELSE LET b == Last(labels)
                   IN  LabelWalk(in, i + 1,
                                 Append([code EXCEPT ![b] = <<"jz", i>>], <<"jnz", b>>),
                                 Front(labels))
    ELSE LabelWalk(in, i + 1, Append(code, in[i]), labels)

compile(in) == LabelWalk(in, 1, <<>>, <<>>)

Ub(r) == [r EXCEPT !.st = "ub"]

\* interpreter.rs:218-222: add BYTE [rcx + rdx + shift], n (8-bit immediate)
JitAdd(r, n, k) ==
    IF ~InTape(r.pos + k) THEN Ub(r)
    ELSE [r EXCEPT !.buffer = Store(@, r.pos + k,
                                    (Cell(r.buffer, r.pos + k) + AsU8(n)) % 256),
                   !.i = @ + 1]

\* interpreter.rs:223-230: al = [base]; r8b = n; mul r8b; add [shift], al
JitMul(r, n, k, b) ==
    IF ~InTape(r.pos + k) \/ ~InTape(r.pos + b) THEN Ub(r)
    ELSE LET ax == Cell(r.buffer, r.pos + b) * AsU8(n)
         IN  [r EXCEPT !.buffer = Store(@, r.pos + k,
                                        (Cell(r.buffer, r.pos + k) + (ax % 256)) % 256),
                       !.i = @ + 1]

\* interpreter.rs:231-236
JitAddTo(r, to, from) ==
    IF ~InTape(r.pos + to) \/ ~InTape(r.pos + from) THEN Ub(r)
    ELSE [r EXCEPT !.buffer = Store(@, r.pos + to,
                                    (Cell(r.buffer, r.pos + to)
                                       + Cell(r.buffer, r.pos + from)) % 256),
                   !.i = @ + 1]

\* interpreter.rs:237-241
JitClear(r, k) ==
    IF ~InTape(r.pos + k) THEN Ub(r)
    ELSE [r EXCEPT !.buffer = Store(@, r.pos + k, 0), !.i = @ + 1]

\* interpreter.rs:242-246: add rdx, shift
JitShift(r, n) == [r EXCEPT !.pos = @ + n, !.i = @ + 1]

\* interpreter.rs:251-255: cmp BYTE [rcx + rdx], 0; jz =>forward_label
JitJz(r, target) ==
    IF ~InTape(r.pos) THEN Ub(r)
    ELSE IF Cell(r.buffer, r.pos) = 0 THEN [r EXCEPT !.i = target]
    ELSE [r EXCEPT !.i = @ + 1]

\* interpreter.rs:259-263: cmp BYTE [rcx + rdx], 0; jnz =>backward_label
JitJnz(r, target) ==
    IF ~InTape(r.pos) THEN Ub(r)
    ELSE IF Cell(r.buffer, r.pos) # 0 THEN [r EXCEPT !.i = target]
    ELSE [r EXCEPT !.i = @ + 1]

\* The bytes 1..7 of rax when getchar returns.  getchar returns a u8: only
\* al is defined by the call, the rest of rax is whatever the callee left
\* there.  Two of the outcomes are followed: zero-extended, and all ones.
RaxUpper == { [j \in 1..7 |-> g] : g \in {0, 255} }

RECURSIVE StoreBytes(_, _, _)
StoreBytes(buffer, a, bytes) ==
    IF bytes = <<>> THEN buffer
    ELSE StoreBytes(Store(buffer, a, Head(bytes)), a + 1, Tail(bytes))

\* the bytes that mov [rcx + rdx + shift], rax stores (interpreter.rs:275):
\* the eight bytes of rax, lowest first
InputBytesStored(al, upper) == <<al>> \o upper

\* interpreter.rs:265-277, o the outcome of the read inside getchar
JitInput(r, k, o, upper) ==
    LET read == [r EXCEPT !.rd = o.rd, !.io = Append(@, ReadEvent(o.byte))]
        bytes == InputBytesStored(Stored(o.byte), upper)
    IN  IF \E d \in 0..(Len(bytes) - 1) : ~InTape(r.pos + k + d) THEN Ub(read)
        ELSE [read EXCEPT !.buffer = StoreBytes(@, r.pos + k, bytes),
                          !.i = @ + 1]

\* interpreter.rs:278-289 and putchar, 313-318
JitOutput(r, k) ==
    IF ~InTape(r.pos + k) THEN Ub(r)
    ELSE [r EXCEPT !.io = Append(@, WriteEvent(Cell(r.buffer, r.pos + k))),
                   !.i = @ + 1]

\* one block other than Input's
JitBlock(r, t) ==
    CASE Op(t) = "Add" -> JitAdd(r, t[2], t[3])
      [] Op(t) = "Mul" -> JitMul(r, t[2], t[3], t[4])
      [] Op(t) = "AddTo" -> JitAddTo(r, t[2], t[3])
      [] Op(t) = "Clear" -> JitClear(r, t[2])
      [] Op(t) = "Shift" -> JitShift(r, t[2])
      [] Op(t) = "jz" -> JitJz(r, t[2])
      [] Op(t) = "jnz" -> JitJnz(r, t[2])
      [] Op(t) = "Output" -> JitOutput(r, t[2])
      [] Op(t) = "End" -> [r EXCEPT !.st = "done"]

\* compile is called and the closure invoked (interpreter.rs:300-305)
JitBegin ==
    /\ result = "Ok"
    /\ RunOver
    /\ jit.st = "idle"
    /\ jit' = IF compile(prog) = Panicked THEN Panic(Idle)
              ELSE [Idle EXCEPT !.st = "running"]
    /\ UNCHANGED <<srcVars, optVars, input, closed, run, bf>>

JitStep ==
    /\ jit.st = "running"
    /\ jit.n < MaxSteps
    /\ IF jit.i < 0 \/ jit.i >= Len(prog)
       THEN jit' = Ub(jit) /\ UNCHANGED <<input, closed>>
       ELSE LET t == compile(prog)[jit.i + 1]
                r == [jit EXCEPT !.n = @ + 1]
            IN  IF Op(t) = "Input"
                THEN \E o \in ReadOutcomes(jit.rd), upper \in RaxUpper :
                        /\ jit' = JitInput(r, t[2], o, upper)
                        /\ input' = o.input
                        /\ closed' = o.closed
                ELSE /\ jit' = JitBlock(r, t)
                     /\ UNCHANGED <<input, closed>>
    /\ UNCHANGED <<srcVars, optVars, run, bf>>

JitOver ==
    jit.st \in {"done", "panic", "ub"} \/ (jit.st = "running" /\ jit.n >= MaxSteps)

(***************************************************************************)
(* Reference: the source executed character by character on a tape of the  *)
(* same length, with the same reader.  i is the 0-based index of the next  *)
(* character, pos the head.  The execution ends in st = "outside" when the *)
(* head leaves the tape.                                                   *)
(***************************************************************************)
SrcBal(a, b) ==
    Cardinality({m \in a..b : src[m] = "["}) - Cardinality({m \in a..b : src[m] = "]"})

\* the ']' at j closes the '[' at i
SrcPartners(i, j) ==
    /\ i < j
    /\ src[i] = "["
    /\ src[j] = "]"
    /\ SrcBal(i, j) = 0
    /\ \A m \in i..(j - 1) : SrcBal(i, m) > 0

SrcPartner(k) ==
    CHOOSE m \in 1..Len(src) : SrcPartners(k, m) \/ SrcPartners(m, k)

Outside(r) == [r EXCEPT !.st = "outside"]

BfChar(r, c) ==
    LET v == Cell(r.buffer, r.pos)
    IN  CASE c = "+" -> [r EXCEPT !.buffer = Store(@, r.pos, (v + 1) % 256), !.i = @ + 1]
          [] c = "-" -> [r EXCEPT !.buffer = Store(@, r.pos, (v + 255) % 256), !.i = @ + 1]
          [] c = ">" -> IF InTape(r.pos + 1) THEN [r EXCEPT !.pos = @ + 1, !.i = @ + 1]
                        ELSE Outside(r)
          [] c = "<" -> IF InTape(r.pos - 1) THEN [r EXCEPT !.pos = @ - 1, !.i = @ + 1]
                        ELSE Outside(r)
          [] c = "." -> [r EXCEPT !.io = Append(@, WriteEvent(v)), !.i = @ + 1]
          [] c = "[" -> IF v = 0 THEN [r EXCEPT !.i = SrcPartner(r.i + 1)]
                        ELSE [r EXCEPT !.i = @ + 1]
          [] c = "]" -> IF v # 0 THEN [r EXCEPT !.i = SrcPartner(r.i + 1)]
                        ELSE [r EXCEPT !.i = @ + 1]
          [] OTHER -> [r EXCEPT !.i = @ + 1]

BfBegin ==
    /\ result = "Ok"
    /\ JitOver
    /\ bf.st = "idle"
    /\ bf' = [Idle EXCEPT !.st = "running"]
    /\ UNCHANGED <<srcVars, optVars, input, closed, run, jit>>

BfStep ==
    /\ bf.st = "running"
    /\ bf.n < MaxSrcSteps
    /\ IF bf.i >= Len(src)
       THEN bf' = [bf EXCEPT !.st = "done"] /\ UNCHANGED <<input, closed>>
       ELSE LET c == src[bf.i + 1]
                r == [bf EXCEPT !.n = @ + 1]
            IN  IF c = ","
                THEN \E o \in ReadOutcomes(bf.rd) :
                        /\ bf' = [r EXCEPT !.rd = o.rd,
                                           !.io = Append(@, ReadEvent(o.byte)),
                                           !.buffer = Store(@, r.pos, Stored(o.byte)),
                                           !.i = @ + 1]
                        /\ input' = o.input
                        /\ closed' = o.closed
                ELSE /\ bf' = BfChar(r, c)
                     /\ UNCHANGED <<input, closed>>
    /\ UNCHANGED <<srcVars, optVars, run, jit>>

Init ==
    /\ src = <<>>
    /\ word = <<>>
    /\ nw = 0
    /\ inst = <<>>
    /\ depth = 0
    /\ shift = 0
    /\ begin = 0
    /\ mp = EmptyMap
    /\ result = "sweep"
    /\ prog = <<>>
    /\ input = <<>>
    /\ closed = FALSE
    /\ run = Idle
    /\ jit = Idle
    /\ bf = Idle

ScanOpt == Scan(Words, MaxWords)

Next == ScanOpt \/ Finish

Spec == Init /\ [][Next]_vars

\* number of words the source iterator yields when the program is also run
MaxRunWords == 4

RunWords == { <<c>> : c \in Chars } \cup { <<"-", "<", "-", ">">> }

ScanRun == Scan(RunWords, MaxRunWords)

NextRun ==
    ScanRun \/ Finish \/ RunBegin \/ RunStep \/ JitBegin \/ JitStep \/ BfBegin \/ BfStep

SpecRun == Init /\ [][NextRun]_vars

\* Sources with a long run of '+' inside a loop body: the words are the
\* head of a loop entered with the anchor at 255, a run of PlusRun '+', and
\* the tail of the loop.
PlusRun == 129

MaxWideWords == 3

WideWords ==
    { <<"-", "[", "-", ">">>, [j \in 1..PlusRun |-> "+"], <<"<", "]">> }

ScanWide == Scan(WideWords, MaxWideWords)

NextWide == ScanWide \/ Finish

SpecWide == Init /\ [][NextWide]_vars

\* One arithmetic token of run applied to a tape whose cells hold any byte:
\* the program is the token followed by End, the head stands at CellHead,
\* and the two cells the token touches hold bytes of CellValues.  The deltas
\* and factors are the ends of the i16 range and values around the byte and
\* sign boundaries.
Deltas == {-32768, -129, -1, 1, 2, 128, 255, 32767}

CellValues == {0, 1, 2, 255}

CellHead == 4

CellTokens ==
    {Add(n, 0) : n \in Deltas} \cup {Mul(n, 1, 0) : n \in Deltas}
      \cup {AddTo(1, 0), AddTo(0, 1)}

InitCell ==
    /\ src = <<>>
    /\ word = <<>>
    /\ nw = 0
    /\ inst = <<>>
    /\ depth = 0
    /\ shift = 0
    /\ begin = 0
    /\ mp = EmptyMap
    /\ result = "Ok"
    /\ \E t \in CellTokens : prog = <<t, End>>
    /\ input = <<>>
    /\ closed = FALSE
    /\ \E f \in [CellHead..(CellHead + 1) -> CellValues] :
          run = [Idle EXCEPT !.st = "running", !.pos = CellHead,
                             !.buffer = [a \in {x \in DOMAIN f : f[x] # 0} |-> f[a]]]
    /\ jit = Idle
    /\ bf = Idle

NextCell == RunStep

SpecCell == InitCell /\ [][NextCell]_vars

(***************************************************************************)
(* Properties of Interpreter::new and build_jump_addr.                     *)
(***************************************************************************)
\* '[' minus ']' among the first n characters of the source
Excess(n) ==
    Cardinality({j \in 1..n : src[j] = "["}) - Cardinality({j \in 1..n : src[j] = "]"})

SomePrefixNegative == \E n \in 0..Len(src) : Excess(n) < 0

\* C1: new succeeds iff the brackets of the source are balanced. It fails
\* with "[ missing." exactly at the first ']' read while no '[' is open,
\* with "] missing." exactly when the source ends with a '[' still open and
\* no ']' was unmatched, and yields a program in every other case; a
\* failure returns no program and new never panics.
C1_BalancedIffOk ==
    /\ result \in {"sweep", "Ok", "[ missing.", "] missing."}
    /\ (result = "[ missing.") <=> SomePrefixNegative
    /\ result = "sweep" => depth = Excess(Len(src))
    /\ result = "[ missing." =>
          /\ src[Len(src)] = "]"
          /\ \A n \in 0..(Len(src) - 1) : Excess(n) >= 0
    /\ result = "] missing." => Excess(Len(src)) > 0
    /\ result = "Ok" => Excess(Len(src)) = 0 /\ prog # <<>> /\ Last(prog) = End
    /\ result # "Ok" => prog = <<>>

\* a ']' rejected after a balanced pair, and nothing read after it
C1_Witness ==
    /\ result = "[ missing."
    /\ Len(src) = 3
    /\ src[1] = "["

\* number of LoopBegin minus number of LoopEnd in p[a..b]
Bal(p, a, b) ==
    Cardinality({m \in a..b : Op(p[m]) = "LoopBegin"})
      - Cardinality({m \in a..b : Op(p[m]) = "LoopEnd"})

\* j closes the loop opened at i: the first position where the nesting
\* opened at i returns to zero
Partners(p, i, j) ==
    /\ i < j
    /\ Op(p[i]) = "LoopBegin"
    /\ Op(p[j]) = "LoopEnd"
    /\ Bal(p, i, j) = 0
    /\ \A m \in i..(j - 1) : Bal(p, i, m) > 0

\* C4: in every IR new returns, each LoopBegin at i has a matched LoopEnd
\* at j (and each LoopEnd a LoopBegin) with LoopBegin.rel = (j - i) + 1 and
\* LoopEnd.rel = 1 - (j - i); the two sum to 2, i + rel is j + 1 at the
\* LoopBegin and j + rel is i + 1 at the LoopEnd.
C4_JumpOffsets ==
    result = "Ok" =>
      /\ \A i \in 1..Len(prog) : Op(prog[i]) = "LoopBegin" =>
            \E j \in 1..Len(prog) : Partners(prog, i, j)
      /\ \A j \in 1..Len(prog) : Op(prog[j]) = "LoopEnd" =>
            \E i \in 1..Len(prog) : Partners(prog, i, j)
      /\ \A i, j \in 1..Len(prog) : Partners(prog, i, j) =>
            /\ prog[i][2] = (j - i) + 1
            /\ prog[j][2] = 1 - (j - i)
            /\ prog[i][2] + prog[j][2] = 2
            /\ i + prog[i][2] = j + 1
            /\ j + prog[j][2] = i + 1

\* a returned IR with a loop nested in a loop
C4_Witness ==
    /\ result = "Ok"
    /\ \E i, j, k, l \in 1..Len(prog) :
          i < k /\ l < j /\ Partners(prog, i, j) /\ Partners(prog, k, l)

ZeroAdd(t) == Op(t) = "Add" /\ t[2] = 0

\* C5: for every accepted source, also one with '.' and ',', the IR holds
\* no Add whose delta is 0.
C5_NoZeroAdd ==
    result = "Ok" => \A i \in 1..Len(prog) : ~ZeroAdd(prog[i])

\* the characters of the source are all in S
SourceWithin(S) == \A j \in 1..Len(src) : src[j] \in S

\* C6: for a source that uses only + - > < and balanced [ ], the IR holds
\* no Add whose delta is 0 and no two Shifts at consecutive positions.
C6_NoZeroAddNoShiftPair ==
    (result = "Ok" /\ SourceWithin({"+", "-", ">", "<", "[", "]"})) =>
      /\ \A i \in 1..Len(prog) : ~ZeroAdd(prog[i])
      /\ \A i \in 1..(Len(prog) - 1) :
            ~(Op(prog[i]) = "Shift" /\ Op(prog[i + 1]) = "Shift")

\* such a source whose IR holds an Add and a Shift, the Shift directly
\* before the bracket token it was flushed for
C6_Witness ==
    /\ result = "Ok"
    /\ SourceWithin({"+", "-", ">", "<", "[", "]"})
    /\ \E i \in 1..Len(prog) : Op(prog[i]) = "Add"
    /\ \E i \in 1..(Len(prog) - 1) :
          Op(prog[i]) = "Shift" /\ Op(prog[i + 1]) = "LoopBegin"

\* C10: the jump-resolution pass is idempotent: build_jump_addr applied to
\* the IR that new returned yields the same IR.
C10_JumpIdempotent ==
    result = "Ok" => build_jump_addr(prog) = prog

\* a returned IR with a resolved loop pair
C10_Witness ==
    /\ result = "Ok"
    /\ \E i \in 1..Len(prog) : Op(prog[i]) = "LoopBegin" /\ prog[i][2] > 2

(***************************************************************************)
(* Properties of the two back-ends.                                        *)
(***************************************************************************)
\* C2: for an accepted source and any input, the interpreter and the code
\* emitted by the JIT write the same bytes and end with the same tape: when
\* run has returned, the invocation of the emitted code returns too, with
\* the same bytes written and the same tape.
C2_JitEqualsRun ==
    (run.st = "done" /\ JitOver) =>
      /\ jit.st = "done"
      /\ Written(jit.io) = Written(run.io)
      /\ jit.buffer = run.buffer

\* C3: for an accepted source whose character-by-character execution keeps
\* the head inside the tape, the interpreter on the optimized IR performs
\* the same reads and writes, in the same order, with the same bytes.
C3_SameIOAsSource ==
    (bf.st = "done" /\ RunOver /\ run.st # "running") => run.io = bf.io

\* C8: every execution starts on a zeroed tape of exactly 65536 cells with
\* the head at 0, so that every index in [0, 65536) is a cell of the tape.
C8_TapeOf65536 ==
    /\ (run.st = "running" /\ run.n = 0) =>
          run.buffer = ZeroTape /\ run.pos = 0 /\ \A a \in {0, 65535} : InTape(a)
    /\ (jit.st = "running" /\ jit.n = 0) =>
          jit.buffer = ZeroTape /\ jit.pos = 0 /\ \A a \in {0, 65535} : InTape(a)

(***************************************************************************)
(* The idiom's replacement against the loop's net effect.                  *)
(***************************************************************************)
\* straight-line tokens executed by run, one after the other
RECURSIVE ExecSeq(_, _, _)
ExecSeq(r, code, checks) ==
    IF code = <<>> \/ r.st # "running" THEN r
    ELSE ExecSeq(RunToken(r, Head(code), checks), Tail(code), checks)

Sparse(f) == [a \in {x \in DOMAIN f : f[x] # 0} |-> f[a]]

\* the step reads a ']' and closes it with a Clear instead of a LoopEnd
IdiomRecognized ==
    /\ result = "sweep" /\ result' = "sweep"
    /\ Len(src') = Len(src) + 1
    /\ Last(src') = "]"
    /\ inst' # <<>>
    /\ Op(Last(inst')) = "Clear"

\* the tokens the idiom pushed: the final Clear and the AddTo and Mul tokens
\* right before it
IdiomTail(in) ==
    LET n == Len(in)
        k == CHOOSE x \in 1..n :
               /\ \A m \in x..(n - 1) : Op(in[m]) \in {"AddTo", "Mul"}
               /\ x = 1 \/ Op(in[x - 1]) \notin {"AddTo", "Mul"}
    IN  SubSeq(in, k, n)

TestValues == {0, 3, 255}

\* the tape around head h whose cells at the body's offsets hold f and whose
\* other cells hold 7
TestTape(h, f) ==
    Sparse([a \in (h - 3)..(h + 3) |-> IF a - h \in DOMAIN f THEN f[a - h] ELSE 7])

\* the loop's net effect on that tape, body the per-iteration deltas
NetEffect(h, f, body) ==
    Sparse([a \in (h - 3)..(h + 3) |->
              IF a = h THEN 0
              ELSE IF a - h \in DOMAIN body
                   THEN (f[a - h] + body[a - h] * f[0]) % 256
                   ELSE 7])

\* C7: when a loop is recognized as an idiom, the tokens that replace it,
\* run on any tape with the head inside it, leave tape[p+k] =
\* (tape[p+k] + d * tape[p]) mod 256 for every offset k # 0 of the body with
\* delta d, tape[p] = 0, and the head, every other cell and the I/O
\* unchanged, whatever the order of the pending entries.
C7_IdiomNetEffect ==
    [][IdiomRecognized =>
         \A f \in [DOMAIN mp -> TestValues], checks \in BOOLEAN :
            LET h == 8
                r0 == [Idle EXCEPT !.st = "running", !.pos = h - shift',
                                   !.buffer = TestTape(h, f)]
            IN  ExecSeq(r0, IdiomTail(inst'), checks)
                  = [r0 EXCEPT !.buffer = NetEffect(h, f, mp),
                               !.i = Len(IdiomTail(inst'))]
      ]_vars

\* an idiom with two offsets besides the anchor (factors 2 and 1) has been
\* rewritten after a '<', with the entries in the order opposite to the
\* source's
C7_Witness ==
    /\ result = "sweep"
    /\ src # <<>> /\ Last(src) = "]"
    /\ shift = -1
    /\ Len(inst) >= 3
    /\ inst[Len(inst) - 2] = AddTo(1, -1)
    /\ inst[Len(inst) - 1] = Mul(2, 0, -1)
    /\ inst[Len(inst)] = Clear(-1)

\* C9: a character that is no command is ignored: reading it changes nothing
\* of the optimizer's state; a source of such characters only, or the empty
\* source, is accepted and compiles to the single token End, and running it
\* returns with nothing read or written and the tape all zero.
C9_OtherCharsIgnored ==
    /\ [][(Len(src') = Len(src) + 1 /\ Last(src') \notin Commands)
            => UNCHANGED optVars]_vars
    /\ [](SourceWithin(Chars \ Commands) =>
            /\ result \in {"sweep", "Ok"}
            /\ result = "sweep" =>
                 inst = <<>> /\ depth = 0 /\ shift = 0 /\ begin = 0 /\ mp = EmptyMap
            /\ result = "Ok" => prog = <<End>>
            /\ run.st \in {"idle", "running", "done"}
            /\ run.n <= 1
            /\ run.io = <<>> /\ run.buffer = ZeroTape)

\* a source of two non-command characters has been compiled and run
C9_Witness ==
    /\ Len(src) = 2
    /\ SourceWithin(Chars \ Commands)
    /\ run.st = "done"

(***************************************************************************)
(* Cell arithmetic of run.                                                 *)
(***************************************************************************)
\* the tape the token t should leave, computed in the integers
CellExpected(r, t) ==
    LET at(k) == Cell(r.buffer, r.pos + k)
    IN  CASE Op(t) = "Add" -> Store(r.buffer, r.pos + t[3], (at(t[3]) + t[2]) % 256)
          [] Op(t) = "AddTo" -> Store(r.buffer, r.pos + t[2], (at(t[2]) + at(t[3])) % 256)
          [] Op(t) = "Mul" ->
                Store(r.buffer, r.pos + t[3], (at(t[3]) + t[2] * at(t[4])) % 256)

\* C11: every cell write of the interpreter wraps modulo 256 without
\* failing: for every delta or factor of the i16 range and every byte in the
\* cells, Add(n, k) leaves (tape[p+k] + n) mod 256, AddTo(k, b) leaves
\* (tape[p+k] + tape[p+b]) mod 256 and Mul(n, k, b) leaves
\* (tape[p+k] + n * tape[p+b]) mod 256, and run goes on to the next token.
C11_CellWritesWrap ==
    [][(run.st = "running" /\ run.i = 0 /\ run'.n = run.n + 1
          /\ Op(prog[1]) \in {"Add", "AddTo", "Mul"})
         => /\ run'.st = "running"
            /\ run'.i = 1
            /\ run'.buffer = CellExpected(run, prog[1])
      ]_vars

(***************************************************************************)
(* The frame of an Input step.                                             *)
(***************************************************************************)
\* the indices at which two tapes differ
Changed(b1, b2) == {a \in DOMAIN b1 \cup DOMAIN b2 : Cell(b1, a) # Cell(b2, a)}

\* the step executes an Input token of run and run goes on
RunReadsInput ==
    /\ run.st = "running" /\ run'.st = "running"
    /\ run'.n = run.n + 1
    /\ run.i >= 0 /\ run.i < Len(prog)
    /\ Op(prog[run.i + 1]) = "Input"

\* the step executes the block emitted for an Input token and the code goes on
JitReadsInput ==
    /\ jit.st = "running" /\ jit'.st = "running"
    /\ jit'.n = jit.n + 1
    /\ jit.i >= 0 /\ jit.i < Len(prog)
    /\ Op(prog[jit.i + 1]) = "Input"

\* C12: Input(k) writes exactly one byte in both back-ends: after the step
\* only tape[p+k] may differ from its value before it; every other cell,
\* tape[p+k+1] .. tape[p+k+7] included, and the head are unchanged.
C12_InputWritesOneByte ==
    [][/\ RunReadsInput =>
            /\ Changed(run.buffer, run'.buffer) \subseteq {run.pos + prog[run.i + 1][2]}
            /\ run'.pos = run.pos
       /\ JitReadsInput =>
            /\ Changed(jit.buffer, jit'.buffer) \subseteq {jit.pos + prog[jit.i + 1][2]}
            /\ jit'.pos = jit.pos
      ]_vars

(***************************************************************************)
(* Which loops are rewritten.  The text of a loop is read off the source,  *)
(* independently of the optimizer's locals.                                *)
(***************************************************************************)
\* '[' minus ']' in s[a..b]
TextBal(s, a, b) ==
    Cardinality({m \in a..b : s[m] = "["}) - Cardinality({m \in a..b : s[m] = "]"})

\* the position of the '[' that the last character of s, a ']', closes
Opener(s) ==
    CHOOSE i \in 1..(Len(s) - 1) :
       /\ s[i] = "["
       /\ TextBal(s, i, Len(s)) = 0
       /\ \A j \in (i + 1)..(Len(s) - 1) : ~(s[j] = "[" /\ TextBal(s, j, Len(s)) = 0)

\* the text between that '[' and the ']'
Body(s) == SubSeq(s, Opener(s) + 1, Len(s) - 1)

Plain(body) == \A j \in 1..Len(body) : body[j] \notin {",", ".", "[", "]"}

\* '>' minus '<' in a text
NetMove(body) ==
    Cardinality({j \in 1..Len(body) : body[j] = ">"})
      - Cardinality({j \in 1..Len(body) : body[j] = "<"})

\* '+' minus '-' among the characters of a text read with the head at offset 0
AnchorDelta(body) ==
    LET at(j) == NetMove(SubSeq(body, 1, j - 1))
    IN  Cardinality({j \in 1..Len(body) : body[j] = "+" /\ at(j) = 0})
          - Cardinality({j \in 1..Len(body) : body[j] = "-" /\ at(j) = 0})

Count(in, op) == Cardinality({j \in 1..Len(in) : Op(in[j]) = op})

\* the step reads a ']' that closes an open '['
ReadsClosing ==
    /\ result = "sweep" /\ result' = "sweep"
    /\ Len(src') = Len(src) + 1
    /\ Last(src') = "]"

\* the step removed the loop's LoopBegin and pushed no LoopEnd
Rewritten ==
    /\ Count(inst', "LoopBegin") = Count(inst, "LoopBegin") - 1
    /\ Count(inst', "LoopEnd") = Count(inst, "LoopEnd")
    /\ Op(Last(inst')) = "Clear"

\* the step kept the LoopBegin and pushed the LoopEnd
Kept ==
    /\ Count(inst', "LoopBegin") = Count(inst, "LoopBegin")
    /\ Count(inst', "LoopEnd") = Count(inst, "LoopEnd") + 1
    /\ Op(Last(inst')) = "LoopEnd"

\* C13: a ']' is rewritten as an idiom (its LoopBegin removed, no LoopEnd
\* pushed) if and only if the text between it and its '[' holds no ',', '.',
\* '[' or ']', moves the head by 0 in total and changes the anchor cell by
\* exactly -1; otherwise the LoopBegin stays and a LoopEnd is pushed.  A body
\* with I/O or with a nested loop, rewritten or not, is never rewritten, and
\* the begin left by an earlier '[' makes no other loop match.
C13_IdiomIffPlainBody ==
    [][ReadsClosing =>
         IF /\ Plain(Body(src'))
            /\ NetMove(Body(src')) = 0
            /\ AnchorDelta(Body(src')) = -1
         THEN Rewritten
         ELSE Kept
      ]_vars

\* a loop that encloses a rewritten clear loop and whose own text changes the
\* anchor by -1 has been closed and kept
C13_Witness ==
    /\ result = "sweep"
    /\ src = <<"[">> \o ClearLoop \o <<"-", "]">>
    /\ Op(Last(inst)) = "LoopEnd"

(***************************************************************************)
(* What a rewritten loop leaves in the IR.                                 *)
(***************************************************************************)
\* the head movement committed by the Shift tokens of an IR
RECURSIVE TotalShift(_)
TotalShift(in) ==
    IF in = <<>> THEN 0
    ELSE (IF Op(Head(in)) = "Shift" THEN Head(in)[2] ELSE 0) + TotalShift(Tail(in))

\* the shift pending when the '[' of the loop just closed was read: the head
\* movement of the text before it, less what the IR before it had committed
PreLoopShift(s, in) == NetMove(SubSeq(s, 1, Opener(s) - 1)) - TotalShift(in)

\* C14: when an idiom is recognized the LoopBegin and the Shift pushed for
\* the same '[' (if any) are removed and shift is restored to its value s
\* before the loop: the loop leaves no LoopBegin, LoopEnd or Shift in the IR,
\* one AddTo(k + s, s) or Mul(d, k + s, s) per offset k # 0 with delta d # 0,
\* and Clear(s) last.
C14_IdiomPopsAndRestores ==
    [][IdiomRecognized =>
         LET s == PreLoopShift(src', inst')
             tail == IdiomTail(inst')
             popped == IF s # 0 THEN 2 ELSE 1
             live == {k \in DOMAIN mp \ {0} : mp[k] # 0}
         IN  /\ shift' = s
             /\ inst[Len(inst)] = LoopBegin(0)
             /\ s # 0 => inst[Len(inst) - 1] = Shift(s)
             /\ s = 0 => (Len(inst) = 1 \/ Op(inst[Len(inst) - 1]) # "Shift")
             /\ inst' = SubSeq(inst, 1, Len(inst) - popped) \o tail
             /\ Count(inst', "LoopBegin") = Count(inst, "LoopBegin") - 1
             /\ Count(inst', "LoopEnd") = Count(inst, "LoopEnd")
             /\ Count(inst', "Shift") = Count(inst, "Shift") - (popped - 1)
             /\ Last(tail) = Clear(s)
             /\ Len(tail) = Cardinality(live) + 1
             /\ \A k \in live :
                   \E j \in 1..(Len(tail) - 1) :
                      tail[j] = IF mp[k] = 1 THEN AddTo(k + s, s)
                                ELSE Mul(mp[k], k + s, s)
      ]_vars

\* '>[->+<]' has been rewritten: no loop and no Shift is left, the tokens
\* are relative to the restored shift 1
C14_Witness ==
    /\ result = "sweep"
    /\ src = <<">", "[", "-", ">", "+", "<", "]">>
    /\ inst = <<AddTo(2, 1), Clear(1)>>
    /\ shift = 1

(***************************************************************************)
(* Flushes at the brackets and at the I/O characters.                      *)
(***************************************************************************)
\* the step reads a '['
ReadsOpening ==
    /\ result = "sweep" /\ result' = "sweep"
    /\ Len(src') = Len(src) + 1
    /\ Last(src') = "["

\* C15: no pending arithmetic or head movement crosses an emitted bracket:
\* right after a '[' or a ']' that is not rewritten, mp is empty and shift
\* is 0, the step has pushed one Add(d, k) per pending entry with d # 0, then
\* Shift(shift) if shift # 0, then the bracket token, and the Shift tokens of
\* the IR add up to the head movement of the text read so far.
C15_FlushBeforeBracket ==
    [][(ReadsOpening \/ (ReadsClosing /\ Op(Last(inst')) = "LoopEnd")) =>
         LET live == {k \in DOMAIN mp : mp[k] # 0}
             na == Cardinality(live)
             ns == IF shift # 0 THEN 1 ELSE 0
         IN  /\ mp' = EmptyMap
             /\ shift' = 0
             /\ Len(inst') = Len(inst) + na + ns + 1
             /\ SubSeq(inst', 1, Len(inst)) = inst
             /\ \A k \in live :
                   \E j \in 1..na : inst'[Len(inst) + j] = Add(mp[k], k)
             /\ shift # 0 => inst'[Len(inst) + na + 1] = Shift(shift)
             /\ Last(inst') = IF Last(src') = "[" THEN LoopBegin(0) ELSE LoopEnd(0)
             /\ TotalShift(inst') = NetMove(src')
      ]_vars

\* '[+>]' has been read: the ']' pushed the Add, then the Shift, then the
\* LoopEnd
C15_Witness ==
    /\ result = "sweep"
    /\ src = <<"[", "+", ">", "]">>
    /\ inst = <<LoopBegin(0), Add(1, 0), Shift(1), LoopEnd(0)>>
    /\ mp = EmptyMap
    /\ shift = 0

\* the step reads the command c and the sweep goes on
ReadsChar(c) ==
    /\ result = "sweep" /\ result' = "sweep"
    /\ Len(src') = Len(src) + 1
    /\ Last(src') = c

\* the step removes the pending entry at the current offset, if any, and
\* leaves shift, depth, begin and every other pending entry as they were
OnlyCurrentEntryRemoved ==
    /\ shift' = shift
    /\ depth' = depth
    /\ begin' = begin
    /\ DOMAIN mp' = DOMAIN mp \ {shift}
    /\ \A k \in DOMAIN mp' : mp'[k] = mp[k]

\* C16: on '.', only the pending entry at the current offset is flushed, as
\* Add(delta, shift) directly before Output(shift), and removed; on ',' that
\* entry is discarded without an Add and Input(shift) is pushed; shift, depth
\* and the other pending entries are unchanged.  Hence, for a source without
\* brackets whose head stays inside the tape, run performs the reads and
\* writes of the source with the same bytes.
C16_IOFlushesCurrentOnly ==
    /\ [][ReadsChar(".") =>
            /\ inst' = inst \o (IF shift \in DOMAIN mp
                                THEN <<Add(mp[shift], shift)>> ELSE <<>>)
                            \o <<Output(shift)>>
            /\ OnlyCurrentEntryRemoved]_vars
    /\ [][ReadsChar(",") =>
            /\ inst' = Append(inst, Input(shift))
            /\ OnlyCurrentEntryRemoved]_vars
    /\ []((SourceWithin(Chars \ {"[", "]"}) /\ bf.st = "done") =>
            /\ run.st = "done"
            /\ run.io = bf.io)

\* '+>-.' has been compiled and run: the entry of cell 1 was flushed before
\* the Output, the entry of cell 0 never, and the byte written is 255
C16_Witness ==
    /\ src = <<"+", ">", "-", ".">>
    /\ prog = <<Add(-1, 1), Output(1), End>>
    /\ run.io = <<WriteEvent(255)>>
    /\ bf.st = "done"

(***************************************************************************)
(* Input at the end of the stream.                                         *)
(***************************************************************************)
\* the step executes an Input token of run whose read finds the reader at
\* its end, the cell being one of the tape
RunReadsAtEnd ==
    /\ run.st = "running"
    /\ run'.n = run.n + 1
    /\ run.i >= 0 /\ run.i < Len(prog)
    /\ Op(prog[run.i + 1]) = "Input"
    /\ run'.io = Append(run.io, ReadEvent(Eof))
    /\ InTape(run.pos + prog[run.i + 1][2])

\* the same for the block emitted for an Input token
JitReadsAtEnd ==
    /\ jit.st = "running"
    /\ jit'.n = jit.n + 1
    /\ jit.i >= 0 /\ jit.i < Len(prog)
    /\ Op(prog[jit.i + 1]) = "Input"
    /\ jit'.io = Append(jit.io, ReadEvent(Eof))
    /\ InTape(jit.pos + prog[jit.i + 1][2])

\* C17: Input on an exhausted reader does not fail: run, and the emitted
\* code through getchar, store 0 into tape[p+k] and go on with the next
\* instruction.
C17_InputAtEndStoresZero ==
    [][/\ RunReadsAtEnd =>
            /\ run'.st = "running"
            /\ run'.i = run.i + 1
            /\ Cell(run'.buffer, run.pos + prog[run.i + 1][2]) = 0
       /\ JitReadsAtEnd =>
            /\ jit'.st = "running"
            /\ jit'.i = jit.i + 1
            /\ Cell(jit'.buffer, jit.pos + prog[jit.i + 1][2]) = 0
      ]_vars

\* '+.,.' on an empty input: both back-ends wrote 1, read at the end of the
\* stream, wrote the 0 stored over the 1, and returned
C17_Witness ==
    /\ src = <<"+", ".", ",", ".">>
    /\ run.st = "done"
    /\ run.io = <<WriteEvent(1), ReadEvent(Eof), WriteEvent(0)>>
    /\ jit.st = "done"
    /\ jit.io = run.io

(***************************************************************************)
(* Shape of the IR and of the program that ends without a flush.           *)
(***************************************************************************)
\* C18: every IR new returns is well formed: one End, at the last position;
\* LoopBegin and LoopEnd properly nested (no prefix with more LoopEnd than
\* LoopBegin, equal totals), so that neither the stack of build_jump_addr nor
\* the label stack of compile is popped empty; and while run executes, its
\* program counter is an index of the IR.
C18_WellFormedIR ==
    /\ result # "panic"
    /\ jit.st # "panic"
    /\ result = "Ok" =>
          /\ prog # <<>>
          /\ Last(prog) = End
          /\ Count(prog, "End") = 1
          /\ Bal(prog, 1, Len(prog)) = 0
          /\ \A n \in 1..Len(prog) : Bal(prog, 1, n) >= 0
          /\ build_jump_addr(prog) # Panicked
          /\ compile(prog) # Panicked
    /\ run.st = "running" => (run.i >= 0 /\ run.i < Len(prog))

\* '+[,]' has run on a one-byte input: the LoopEnd jumped back once and the
\* run reached End
C18_Witness ==
    /\ src = <<"+", "[", ",", "]">>
    /\ run.st = "done"
    /\ Len(run.io) = 2
    /\ jit.st \in {"done", "ub", "running"}

\* the step ends the sweep with a program
Returns == result = "sweep" /\ result' = "Ok"

\* C19: at the end of the source nothing is flushed: reading '+', '-', '>'
\* or '<' pushes no token, and the returned IR is the tokens pushed so far
\* followed by End, whatever is pending; so a source of these characters
\* only compiles to the single token End and its run leaves the tape zero.
C19_NoFlushAtEnd ==
    /\ [][(ReadsChar("+") \/ ReadsChar("-") \/ ReadsChar(">") \/ ReadsChar("<"))
            => inst' = inst]_vars
    /\ [][Returns =>
            /\ Len(prog') = Len(inst) + 1
            /\ Last(prog') = End
            /\ \A j \in 1..Len(inst) :
                  /\ Op(prog'[j]) = Op(inst[j])
                  /\ Op(inst[j]) \notin {"LoopBegin", "LoopEnd"} => prog'[j] = inst[j]
          ]_vars
    /\ [](SourceWithin(Chars \ {"[", "]", ",", "."}) =>
            /\ result = "Ok" => prog = <<End>>
            /\ run.buffer = ZeroTape
            /\ run.pos = 0
            /\ run.io = <<>>)

\* '+++' has been compiled to End and run: tape[0] is 0
C19_Witness ==
    /\ src = <<"+", "+", "+">>
    /\ prog = <<End>>
    /\ run.st = "done"
    /\ Cell(run.buffer, 0) = 0

====
